---------------------------- MODULE Spec2Model ----------------------------
(***************************************************************************)
(* Model of src/Encoder_classifier/classifier.py: the ClassifierBinary     *)
(* network (construction, reset, forward), its weighted binary             *)
(* cross-entropy and accuracy, and the fit training loop with its history  *)
(* and its early-stopping rule.                                            *)
(*                                                                         *)
(* Tensors are symbolic.  A parameter or buffer is a record                *)
(*   [storage, numel, init, updates]                                       *)
(* where init says how the tensor was last initialised (a constant fill,   *)
(* or a draw from the random stream: distribution, seed, offset in the     *)
(* stream) and updates counts the in-place changes made since (optimizer   *)
(* steps for parameters, training-mode forward passes for the running      *)
(* statistics).  Losses and accuracies are exact rationals <<num, den>>.   *)
(***************************************************************************)
EXTENDS Integers, Sequences, FiniteSets, TLC

VARIABLES
    \* ---- process-wide state
    rng,                \* torch default generator: [seed, pos]
    heap,               \* number of tensor storages allocated so far
    \* ---- network objects
    net,                \* the network fit/reset act on (self)
    fresh,              \* the network most recently constructed, or NoNet
    optimizer,          \* the optimizer bound to net: counts of its calls
    net_init,           \* history: how net was last (re)initialised
    fresh_init,         \* history: how fresh was constructed
    \* ---- arguments of fit
    train_data, tr_out, val_data, val_out,
    num_epochs, batch_size, print_every, plot, early_stopping, loss_weight,
    \* ---- locals of fit
    pc, epoch, order, batch_i,
    epoch_train_loss, epoch_val_loss, epoch_train_accuracy, epoch_val_accuracy,
    train_losses, val_losses, train_accuracies, val_accuracies,
    stdout, result,
    \* ---- one call of binary_loss
    bl_args, bl_class_weights, bl_result

netvars  == <<net, fresh, optimizer, net_init, fresh_init>>
args     == <<train_data, tr_out, val_data, val_out,
              num_epochs, batch_size, print_every, plot, early_stopping, loss_weight>>
accums   == <<epoch_train_loss, epoch_val_loss, epoch_train_accuracy, epoch_val_accuracy>>
history  == <<train_losses, val_losses, train_accuracies, val_accuracies>>
locals   == <<pc, epoch, order, batch_i, accums, history, stdout, result>>
blvars   == <<bl_args, bl_class_weights, bl_result>>
vars     == <<rng, heap, netvars, args, locals, blvars>>

-----------------------------------------------------------------------------
(* Bounds of the model *)

MaxEpochs == 5          \* num_epochs ranges over 0..MaxEpochs
MaxVariedEpochs == 3    \* longest run on a train set whose metrics vary
MaxES == 2              \* early_stopping ranges over 0..MaxES
MaxSeed == 1            \* manual_seed arguments range over 0..MaxSeed
MaxSteps == 2           \* training steps taken between resets (network lifecycle)
MaxInits == 3           \* initialisation passes drawn from one seeding
MaxNets == 2            \* networks constructed after the first
MaxBatchLen == 2        \* batch length of a stand-alone binary_loss call
MaxWeight == 2          \* class weights of a stand-alone binary_loss call
MaxShuffledEpochs == 2  \* num_epochs of the runs on several train batches

(* Program constants *)

Hidden1 == 80
Hidden2 == 50
Hidden3 == 30
OutFeatures == 1
ImportSeed == 42

-----------------------------------------------------------------------------
(* Exact rational arithmetic for the float scalars of the loop *)

RECURSIVE GCD(_, _)
GCD(a, b) == IF b = 0 THEN a ELSE GCD(b, a % b)

Abs(x) == IF x < 0 THEN -x ELSE x

Rat(n, d) ==
    LET g == GCD(Abs(n), d)
    IN  IF n = 0 THEN <<0, 1>> ELSE <<n \div g, d \div g>>

Zero == <<0, 1>>
RAdd(a, b) == Rat(a[1] * b[2] + b[1] * a[2], a[2] * b[2])
RMul(a, b) == Rat(a[1] * b[1], a[2] * b[2])
RDivInt(a, k) == Rat(a[1], a[2] * k)
RLess(a, b) == a[1] * b[2] < b[1] * a[2]

RECURSIVE SumSeq(_)
SumSeq(s) == IF s = <<>> THEN 0 ELSE Head(s) + SumSeq(Tail(s))

-----------------------------------------------------------------------------
(* The random stream and symbolic tensors *)

Seeded(s) == [seed |-> s, pos |-> 0]
Advance(g, n) == [g EXCEPT !.pos = @ + n]

Fill(value) == [dist |-> value, seed |-> 0, at |-> 0]
Drawn(dist, g) == [dist |-> dist, seed |-> g.seed, at |-> g.pos]

Tensor(storage, numel, init) ==
    [storage |-> storage, numel |-> numel, init |-> init, updates |-> 0]

\* An in-place initialisation: the storage is kept, the value is replaced.
InitInPlace(t, init) == [t EXCEPT !.init = init, !.updates = 0]
\* An in-place update (optimizer step, running-statistics update).
Bump(t) == [t EXCEPT !.updates = @ + 1]

\* nn.init.kaiming_uniform_(m.weight): consumes numel values of the stream.
kaiming_uniform_(t, g) == InitInPlace(t, Drawn("kaiming_uniform(a=0)", g))
\* nn.init.uniform_(m.bias, -0.5, 0.5)
uniform_(t, g) == InitInPlace(t, Drawn("uniform(-0.5,0.5)", g))

-----------------------------------------------------------------------------
(* ClassifierBinary: construction and reset *)

InputSizes == {2, 3}
Layers == 1..4
Norms == 1..3
Sizes(inputSize) == <<inputSize, Hidden1, Hidden2, Hidden3, OutFeatures>>
TensorsPerNet == 2 * Cardinality(Layers) + 5 * Cardinality(Norms)

NoNet == [inputSize |-> 0, linear |-> <<>>, bn |-> <<>>, training |-> FALSE]

\* nn.Linear(in_features, out_features, bias=True): allocates weight and bias
\* and runs the layer's own default initialisation, which draws both from
\* the stream (weight first, then bias).
Linear(in_features, out_features, base, g) ==
    LET w  == Tensor(base + 1, in_features * out_features,
                     Drawn("kaiming_uniform(a=sqrt(5))", g))
        g1 == Advance(g, w.numel)
        b  == Tensor(base + 2, out_features, Drawn("uniform(-1/sqrt(fan_in))", g1))
    IN  [layer |-> [weight |-> w, bias |-> b], rng |-> Advance(g1, b.numel)]

\* nn.BatchNorm1d(num_features): constant fills, no draw.
BatchNorm1d(num_features, base) ==
    [weight |-> Tensor(base + 1, num_features, Fill("ones")),
     bias |-> Tensor(base + 2, num_features, Fill("zeros")),
     running_mean |-> Tensor(base + 3, num_features, Fill("zeros")),
     running_var |-> Tensor(base + 4, num_features, Fill("ones")),
     num_batches_tracked |-> Tensor(base + 5, 1, Fill("zeros"))]

\* The nn.Sequential of __init__, built left to right; LeakyReLU and Sigmoid
\* hold no state.
RECURSIVE SequentialFrom(_, _, _, _)
SequentialFrom(n, g, base, i) ==
    IF i > Cardinality(Layers) THEN [net |-> n, rng |-> g]
    ELSE LET sz == Sizes(n.inputSize)
             l  == Linear(sz[i], sz[i + 1], base + 7 * (i - 1), g)
             n1 == [n EXCEPT !.linear = Append(@, l.layer)]
             n2 == IF i \in Norms
                   THEN [n1 EXCEPT !.bn = Append(@, BatchNorm1d(sz[i + 1], base + 7 * (i - 1) + 2))]
                   ELSE n1
         IN  SequentialFrom(n2, l.rng, base, i + 1)

Sequential(inputSize, g, base) ==
    SequentialFrom([inputSize |-> inputSize, linear |-> <<>>, bn |-> <<>>,
                    training |-> TRUE], g, base, 1)

\* for m in self.modules(): if isinstance(m, nn.Linear): kaiming_uniform_(m.weight);
\* uniform_(m.bias, -0.5, 0.5).  Only the Linear modules are touched.
RECURSIVE InitLinearsFrom(_, _, _)
InitLinearsFrom(n, g, i) ==
    IF i > Len(n.linear) THEN [net |-> n, rng |-> g]
    ELSE LET w  == kaiming_uniform_(n.linear[i].weight, g)
             g1 == Advance(g, w.numel)
             b  == uniform_(n.linear[i].bias, g1)
             g2 == Advance(g1, b.numel)
         IN  InitLinearsFrom([n EXCEPT !.linear[i] = [weight |-> w, bias |-> b]], g2, i + 1)

\* ClassifierBinary.__init__
ClassifierBinary(inputSize, g, base) ==
    LET built == Sequential(inputSize, g, base)
    IN  InitLinearsFrom(built.net, built.rng, 1)

\* ClassifierBinary.reset
reset(n, g) == InitLinearsFrom(n, g, 1)

\* Number of stream values one pass over the Linear layers consumes.
LinearNumel(inputSize) ==
    LET sz == Sizes(inputSize)
    IN  SumSeq([i \in Layers |-> sz[i] * sz[i + 1] + sz[i + 1]])

-----------------------------------------------------------------------------
(* forward and the optimizer *)

\* self.network(x): in training mode every BatchNorm1d updates its running
\* statistics and its batch counter; in evaluation mode nothing is written.
forward(n) ==
    IF n.training
    THEN [n EXCEPT !.bn = [j \in DOMAIN n.bn |->
            [n.bn[j] EXCEPT !.running_mean = Bump(@), !.running_var = Bump(@),
                            !.num_batches_tracked = Bump(@)]]]
    ELSE n

\* optimizer.step(): every parameter (Linear weight and bias, BatchNorm
\* weight and bias) is updated in place.
optimizer_step(n) ==
    [n EXCEPT !.linear = [i \in DOMAIN n.linear |->
                            [weight |-> Bump(n.linear[i].weight), bias |-> Bump(n.linear[i].bias)]],
              !.bn = [j \in DOMAIN n.bn |->
                            [n.bn[j] EXCEPT !.weight = Bump(@), !.bias = Bump(@)]]]

\* One iteration of the training loop body on the network and optimizer.
train_step(n) == optimizer_step(forward(n))

\* The optimizer's side of one iteration (lines 92, 100, 101).  grad_batches
\* counts the batches whose gradients are summed in the .grad buffers;
\* stepped_on is that count at the latest step.

\* Mutant: the gradients are not zeroed before the batch.
zero_grad_skipped(o) == o

\* optimizer.zero_grad()
zero_grad(o) == [o EXCEPT !.zero_grads = @ + 1, !.grad_batches = 0]

\* loss.backward(): the batch's gradients are added to the buffers.
backward(o) == [o EXCEPT !.grad_batches = @ + 1]

\* optimizer.step()
step(o) == [o EXCEPT !.steps = @ + 1, !.stepped_on = o.grad_batches]

NewOptimizer == [steps |-> 0, zero_grads |-> 0, grad_batches |-> 0, stepped_on |-> 0]

Parameters(n) ==
    [linear |-> n.linear, bn |-> [j \in DOMAIN n.bn |-> [weight |-> n.bn[j].weight, bias |-> n.bn[j].bias]]]
RunningStats(n) ==
    [j \in DOMAIN n.bn |-> [running_mean |-> n.bn[j].running_mean,
                            running_var |-> n.bn[j].running_var,
                            num_batches_tracked |-> n.bn[j].num_batches_tracked]]
AffineValues(n) ==
    [i \in DOMAIN n.linear |-> [weight |-> [init |-> n.linear[i].weight.init, updates |-> n.linear[i].weight.updates],
                                bias |-> [init |-> n.linear[i].bias.init, updates |-> n.linear[i].bias.updates]]]
Storages(n) ==
    [linear |-> [i \in DOMAIN n.linear |-> <<n.linear[i].weight.storage, n.linear[i].bias.storage>>],
     bn |-> [j \in DOMAIN n.bn |-> <<n.bn[j].weight.storage, n.bn[j].bias.storage,
                                     n.bn[j].running_mean.storage, n.bn[j].running_var.storage,
                                     n.bn[j].num_batches_tracked.storage>>]]

-----------------------------------------------------------------------------
(* binary_loss and compute_accuracy *)

\* Predicted probabilities, in percent, and -ln(p) in thousandths.
Probs == {25, 75}
NegLog(p) == CASE p = 25 -> 1386 [] p = 75 -> 288

\* Per-element term of nn.functional.binary_cross_entropy.
BceTerm(o, t) == t * NegLog(o) + (1 - t) * NegLog(100 - o)

\* nn.functional.binary_cross_entropy(output, target, weight=w), reduction mean.
binary_cross_entropy(output, target, w) ==
    Rat(SumSeq([i \in DOMAIN output |-> w[i] * BceTerm(output[i], target[i])]), Len(output))

\* Mutant: the two class weights taken in the other order.
class_weights_swapped(target, weight) ==
    LET weight_1 == weight[2]
        weight_2 == weight[1]
        step1 == [i \in DOMAIN target |-> (target[i] - 1) * weight_1]
    IN  [i \in DOMAIN target |-> target[i] * weight_2 - step1[i]]

\* class_weights = target.clone(); class_weights = (class_weights-1)*weight_1;
\* class_weights = target*weight_2 - class_weights
class_weights_of(target, weight) ==
    LET weight_1 == weight[1]
        weight_2 == weight[2]
        step1 == [i \in DOMAIN target |-> (target[i] - 1) * weight_1]
    IN  [i \in DOMAIN target |-> target[i] * weight_2 - step1[i]]

\* ClassifierBinary.binary_loss; output and target are the squeezed 1-D tensors.
binary_loss(output, target, weight) ==
    binary_cross_entropy(output, target, class_weights_of(target, weight))

\* ClassifierBinary.compute_accuracy: binary_accuracy with threshold 0.5.
compute_accuracy(input, target) ==
    Rat(Cardinality({i \in DOMAIN input : (IF input[i] < 50 THEN 0 ELSE 1) = target[i]}),
        Len(input))

-----------------------------------------------------------------------------
(* DataLoader *)

\* len(DataLoader(dataset, batch_size)) for a dataset of n samples.
NumBatches(n, bs) == (n + bs - 1) \div bs

Identity(n) == [i \in 1..n |-> i]
Perms(n) == {f \in [1..n -> 1..n] : \A i, j \in 1..n : f[i] = f[j] => i = j}

\* The k-th batch (k from 0) of a loader that visits the samples in order ord.
BatchOf(ord, bs, k) ==
    LET lo == k * bs + 1
        hi == IF (k + 1) * bs < Len(ord) THEN (k + 1) * bs ELSE Len(ord)
    IN  [i \in 1..(hi - lo + 1) |-> ord[lo + i - 1]]

\* The rows (x) and labels (y) of a batch of sample indices.
Rows(data, batch) == [i \in DOMAIN batch |-> data[batch[i]]]
Labels(out, batch) == [i \in DOMAIN batch |-> out[batch[i]]]

\* The outputs self(x) can take on a batch x: one probability per row, equal
\* rows of a batch getting equal outputs (the network is a function of its
\* input; which function depends on the parameters, which are symbolic).
Outputs(x) ==
    {[i \in DOMAIN x |-> f[x[i]]] : f \in [{x[i] : i \in DOMAIN x} -> Probs]}

\* Python's s[i] for i < 0 on a 1-based sequence.
NegIndex(s, i) == s[Len(s) + i + 1]

-----------------------------------------------------------------------------
(* fit: values and helpers *)

NoResult == [status |-> "none", value |-> <<Zero, Zero, Zero, Zero>>, exception |-> ""]
Returned(v) == [status |-> "returned", value |-> v, exception |-> ""]
Raised(e) == [status |-> "raised", value |-> <<Zero, Zero, Zero, Zero>>, exception |-> e]

Line(text, n) == [text |-> text, epoch |-> n]
MismatchMessage ==
    Line("Error: The number of samples in the input and output tensors must match", 0)

\* The factor 0.999 of the early-stopping comparison.
Factor == <<999, 1000>>

\* Mutant: the comparison of the early-stopping rule turned around.
ShouldStop_reversed(losses, k, e) ==
    /\ k > 0
    /\ e > k
    /\ RLess(RMul(NegIndex(losses, -1), Factor), NegIndex(losses, -k))

\* Mutant: the older loss is read one entry further back.
ShouldStop_before(losses, k, e) ==
    /\ k > 0
    /\ e > k
    /\ RLess(NegIndex(losses, -(k + 1)), RMul(NegIndex(losses, -1), Factor))

\* Mutant: the gate lets the comparison run one epoch earlier.
ShouldStop_ungated(losses, k, e) ==
    /\ k > 0
    /\ e >= k
    /\ RLess(NegIndex(losses, -k), RMul(NegIndex(losses, -1), Factor))

\* Lines 138-140: the three nested conditions of the early-stopping rule, on
\* the history as it stands after this epoch's append.
ShouldStop(losses, k, e) ==
    /\ k > 0
    /\ e > k
    /\ RLess(NegIndex(losses, -k), RMul(NegIndex(losses, -1), Factor))

\* The batch the loader in use yields next.
CurrentBatch == BatchOf(order, batch_size, batch_i)
LastBatch == batch_i + 1 = NumBatches(Len(order), batch_size)

\* BatchNorm1d refuses a single-sample batch in training mode (ValueError:
\* "Expected more than 1 value per channel when training").
ForwardAccepts(n, batch) == ~n.training \/ Len(batch) > 1

\* Mutant: a scoring pass that also takes an optimizer step.
scoring_forward_stepping(n) == train_step(n)

\* The forward pass of a scoring phase (validation, train rescoring), under
\* torch.no_grad(): no gradient, no optimizer step; the module's mode decides
\* what forward writes.
scoring_forward(n) == forward(n)

-----------------------------------------------------------------------------
(* fit: one action per step of the method *)

\* Mutant: the train check raises on a mismatch instead of printing.
CheckTrainShapes_raising ==
    /\ pc = "check_train"
    /\ IF Len(train_data) # Len(tr_out)
       THEN pc' = "error" /\ result' = Raised("ValueError")
       ELSE pc' = "check_val" /\ result' = result
    /\ UNCHANGED <<rng, heap, netvars, args, epoch, order, batch_i, accums, history, stdout, blvars>>

\* Lines 73-74
CheckTrainShapes ==
    /\ pc = "check_train"
    /\ stdout' = IF Len(train_data) # Len(tr_out) THEN Append(stdout, MismatchMessage) ELSE stdout
    /\ pc' = "check_val"
    /\ UNCHANGED <<rng, heap, netvars, args, epoch, order, batch_i, accums, history, result, blvars>>

\* Lines 77-78
CheckValShapes ==
    /\ pc = "check_val"
    /\ stdout' = IF Len(val_data) # Len(val_out) THEN Append(stdout, MismatchMessage) ELSE stdout
    /\ pc' = "loaders"
    /\ UNCHANGED <<rng, heap, netvars, args, epoch, order, batch_i, accums, history, result, blvars>>

\* Lines 79-80: TensorDataset asserts that its tensors agree in their first
\* dimension ("Size mismatch between tensors").
MakeLoaders ==
    /\ pc = "loaders"
    /\ Len(train_data) = Len(tr_out) /\ Len(val_data) = Len(val_out)
    /\ pc' = "to_device"
    /\ UNCHANGED <<rng, heap, netvars, args, epoch, order, batch_i, accums, history, stdout, result, blvars>>

MakeLoadersRaises ==
    /\ pc = "loaders"
    /\ Len(train_data) # Len(tr_out) \/ Len(val_data) # Len(val_out)
    /\ pc' = "error"
    /\ result' = Raised("AssertionError")
    /\ UNCHANGED <<rng, heap, netvars, args, epoch, order, batch_i, accums, history, stdout, blvars>>

\* Lines 82-83: self.to(device); self.train()
SetTrainMode ==
    /\ pc = "to_device"
    /\ net' = [net EXCEPT !.training = TRUE]
    /\ pc' = "epoch"
    /\ UNCHANGED <<rng, heap, fresh, optimizer, net_init, fresh_init, args, epoch, order,
                   batch_i, accums, history, stdout, result, blvars>>

\* Mutant: the accumulators keep their values from the epoch before.
EpochStart_carrying ==
    /\ pc = "epoch"
    /\ epoch + 1 < num_epochs
    /\ epoch' = epoch + 1
    /\ \E p \in Perms(Len(train_data)) : order' = p
    /\ rng' = Advance(rng, 1)
    /\ batch_i' = 0
    /\ pc' = "train"
    /\ UNCHANGED <<heap, netvars, args, accums, history, stdout, result, blvars>>

\* Lines 85-91: the next value of range(num_epochs), the four accumulators,
\* and the iterator of the shuffling train loader (a fresh permutation, whose
\* seed is drawn from the default generator).
EpochStart ==
    /\ pc = "epoch"
    /\ epoch + 1 < num_epochs
    /\ epoch' = epoch + 1
    /\ epoch_train_loss' = Zero
    /\ epoch_val_loss' = Zero
    /\ epoch_train_accuracy' = Zero
    /\ epoch_val_accuracy' = Zero
    /\ \E p \in Perms(Len(train_data)) : order' = p
    /\ rng' = Advance(rng, 1)
    /\ batch_i' = 0
    /\ pc' = "train"
    /\ UNCHANGED <<heap, netvars, args, history, stdout, result, blvars>>

\* Line 85: range(num_epochs) is exhausted.
EpochsExhausted ==
    /\ pc = "epoch"
    /\ ~(epoch + 1 < num_epochs)
    /\ pc' = "plot"
    /\ UNCHANGED <<rng, heap, netvars, args, epoch, order, batch_i, accums, history, stdout, result, blvars>>

\* Lines 91-101: one training batch: zero_grad, forward, loss, backward, step.
TrainBatch ==
    /\ pc = "train"
    /\ ForwardAccepts(net, CurrentBatch)
    /\ net' = train_step(net)
    /\ optimizer' = step(backward(zero_grad(optimizer)))
    /\ net_init' = [net_init EXCEPT !.op = "train"]
    /\ IF LastBatch
       THEN /\ pc' = "val"
            /\ batch_i' = 0
            /\ order' = Identity(Len(val_data))
       ELSE /\ pc' = "train"
            /\ batch_i' = batch_i + 1
            /\ order' = order
    /\ UNCHANGED <<rng, heap, fresh, fresh_init, args, epoch, accums, history, stdout, result, blvars>>

\* Lines 103-113: one validation batch, under torch.no_grad().  After the last
\* one, line 114 opens a second iterator on train_loader, the loader built
\* with shuffle=True at line 79: it draws a fresh permutation as the first did.
ValBatch ==
    /\ pc = "val"
    /\ ForwardAccepts(net, CurrentBatch)
    /\ \E y_hat \in Outputs(Rows(val_data, CurrentBatch)) :
         LET y == Labels(val_out, CurrentBatch)
         IN  /\ epoch_val_loss' = RAdd(epoch_val_loss, binary_loss(y_hat, y, loss_weight))
             /\ epoch_val_accuracy' = RAdd(epoch_val_accuracy, compute_accuracy(y_hat, y))
    /\ net' = scoring_forward(net)
    /\ IF LastBatch
       THEN /\ pc' = "rescore"
            /\ batch_i' = 0
            /\ \E p \in Perms(Len(train_data)) : order' = p
            /\ rng' = Advance(rng, 1)
       ELSE /\ pc' = "val"
            /\ batch_i' = batch_i + 1
            /\ order' = order
            /\ rng' = rng
    /\ UNCHANGED <<heap, fresh, optimizer, net_init, fresh_init, args, epoch,
                   epoch_train_loss, epoch_train_accuracy, history, stdout, result, blvars>>

\* Lines 114-123: one batch of the second pass over the train loader; the
\* iterator is dropped when the pass ends.
RescoreBatch ==
    /\ pc = "rescore"
    /\ ForwardAccepts(net, CurrentBatch)
    /\ \E y_hat \in Outputs(Rows(train_data, CurrentBatch)) :
         LET y == Labels(tr_out, CurrentBatch)
         IN  /\ epoch_train_loss' = RAdd(epoch_train_loss, binary_loss(y_hat, y, loss_weight))
             /\ epoch_train_accuracy' = RAdd(epoch_train_accuracy, compute_accuracy(y_hat, y))
    /\ net' = scoring_forward(net)
    /\ IF LastBatch
       THEN /\ pc' = "aggregate"
            /\ batch_i' = 0
            /\ order' = <<>>
       ELSE /\ pc' = "rescore"
            /\ batch_i' = batch_i + 1
            /\ order' = order
    /\ UNCHANGED <<rng, heap, fresh, optimizer, net_init, fresh_init, args, epoch,
                   epoch_val_loss, epoch_val_accuracy, history, stdout, result, blvars>>

\* Lines 98, 109, 119: the forward pass raises on a single-sample batch while
\* the module is in training mode.
ForwardRaises ==
    /\ pc \in {"train", "val", "rescore"}
    /\ ~ForwardAccepts(net, CurrentBatch)
    /\ pc' = "error"
    /\ result' = Raised("ValueError")
    /\ UNCHANGED <<rng, heap, netvars, args, epoch, order, batch_i, accums, history, stdout, blvars>>

\* Mutant: the loss means appended to each other's history.
Aggregate_swapped ==
    /\ pc = "aggregate"
    /\ LET tl == RDivInt(epoch_train_loss, NumBatches(Len(train_data), batch_size))
           vl == RDivInt(epoch_val_loss, NumBatches(Len(val_data), batch_size))
           ta == RDivInt(epoch_train_accuracy, NumBatches(Len(train_data), batch_size))
           va == RDivInt(epoch_val_accuracy, NumBatches(Len(val_data), batch_size))
       IN  /\ epoch_train_loss' = tl
           /\ epoch_val_loss' = vl
           /\ epoch_train_accuracy' = ta
           /\ epoch_val_accuracy' = va
           /\ train_losses' = Append(train_losses, vl)
           /\ val_losses' = Append(val_losses, tl)
           /\ train_accuracies' = Append(train_accuracies, ta)
           /\ val_accuracies' = Append(val_accuracies, va)
    /\ pc' = "report"
    /\ UNCHANGED <<rng, heap, netvars, args, epoch, order, batch_i, stdout, result, blvars>>

\* Lines 125-133: the four means, appended to the four histories.
Aggregate ==
    /\ pc = "aggregate"
    /\ LET tl == RDivInt(epoch_train_loss, NumBatches(Len(train_data), batch_size))
           vl == RDivInt(epoch_val_loss, NumBatches(Len(val_data), batch_size))
           ta == RDivInt(epoch_train_accuracy, NumBatches(Len(train_data), batch_size))
           va == RDivInt(epoch_val_accuracy, NumBatches(Len(val_data), batch_size))
       IN  /\ epoch_train_loss' = tl
           /\ epoch_val_loss' = vl
           /\ epoch_train_accuracy' = ta
           /\ epoch_val_accuracy' = va
           /\ train_losses' = Append(train_losses, tl)
           /\ val_losses' = Append(val_losses, vl)
           /\ train_accuracies' = Append(train_accuracies, ta)
           /\ val_accuracies' = Append(val_accuracies, va)
    /\ pc' = "report"
    /\ UNCHANGED <<rng, heap, netvars, args, epoch, order, batch_i, stdout, result, blvars>>

\* Lines 135-136
Report ==
    /\ pc = "report"
    /\ stdout' = IF (epoch + 1) % print_every = 0
                 THEN Append(stdout, Line("Epoch", epoch + 1))
                 ELSE stdout
    /\ pc' = "early_stop"
    /\ UNCHANGED <<rng, heap, netvars, args, epoch, order, batch_i, accums, history, result, blvars>>

\* Lines 138-142: the rule fires: print and break.
EarlyStop ==
    /\ pc = "early_stop"
    /\ ShouldStop(val_losses, early_stopping, epoch)
    /\ stdout' = Append(stdout, Line("Early stopping at epoch", epoch + 1))
    /\ pc' = "plot"
    /\ UNCHANGED <<rng, heap, netvars, args, epoch, order, batch_i, accums, history, result, blvars>>

\* Lines 138-140: the rule does not fire: back to the loop head.
NoEarlyStop ==
    /\ pc = "early_stop"
    /\ ~ShouldStop(val_losses, early_stopping, epoch)
    /\ pc' = "epoch"
    /\ UNCHANGED <<rng, heap, netvars, args, epoch, order, batch_i, accums, history, stdout, result, blvars>>

\* Lines 144-161: the optional figure.
Plot ==
    /\ pc = "plot"
    /\ stdout' = IF plot THEN Append(stdout, Line("figure", Len(train_losses))) ELSE stdout
    /\ pc' = "return"
    /\ UNCHANGED <<rng, heap, netvars, args, epoch, order, batch_i, accums, history, result, blvars>>

\* Line 163
Return ==
    /\ pc = "return"
    /\ Len(train_losses) > 0
    /\ result' = Returned(<<NegIndex(train_losses, -1), NegIndex(val_losses, -1),
                            NegIndex(train_accuracies, -1), NegIndex(val_accuracies, -1)>>)
    /\ pc' = "done"
    /\ UNCHANGED <<rng, heap, netvars, args, epoch, order, batch_i, accums, history, stdout, blvars>>

\* Line 163 on empty histories: IndexError.
ReturnRaises ==
    /\ pc = "return"
    /\ Len(train_losses) = 0
    /\ result' = Raised("IndexError")
    /\ pc' = "error"
    /\ UNCHANGED <<rng, heap, netvars, args, epoch, order, batch_i, accums, history, stdout, blvars>>

-----------------------------------------------------------------------------
(* Network lifecycle outside fit: seeding, construction, reset, training *)

InitRecord(op, g) == [op |-> op, seed |-> g.seed, at |-> g.pos]
Seeds == (0..MaxSeed) \cup {ImportSeed}

\* torch.manual_seed(s)
ManualSeed ==
    /\ pc = "idle"
    /\ \E s \in Seeds : rng' = Seeded(s)
    /\ UNCHANGED <<heap, netvars, args, locals, blvars>>

\* m = ClassifierBinary(inputSize)
Construct ==
    /\ pc = "idle"
    /\ heap < (MaxNets + 1) * TensorsPerNet
    /\ \E inputSize \in InputSizes :
         /\ rng.pos < MaxInits * LinearNumel(inputSize)
         /\ LET r == ClassifierBinary(inputSize, rng, heap)
            IN  /\ fresh' = r.net
                /\ rng' = r.rng
    /\ heap' = heap + TensorsPerNet
    /\ fresh_init' = InitRecord("construct", rng)
    /\ UNCHANGED <<net, optimizer, net_init, args, locals, blvars>>

\* self.reset()
Reset ==
    /\ pc = "idle"
    /\ rng.pos < MaxInits * LinearNumel(net.inputSize)
    /\ LET r == reset(net, rng)
       IN  /\ net' = r.net
           /\ rng' = r.rng
    /\ net_init' = InitRecord("reset", rng)
    /\ UNCHANGED <<heap, fresh, optimizer, fresh_init, args, locals, blvars>>

\* One training step on self, as the body of fit's training loop takes it.
TrainStep ==
    /\ pc = "idle"
    /\ optimizer.steps < MaxSteps
    /\ net' = train_step(net)
    /\ optimizer' = step(backward(zero_grad(optimizer)))
    /\ net_init' = [net_init EXCEPT !.op = "train"]
    /\ UNCHANGED <<rng, heap, fresh, fresh_init, args, locals, blvars>>

-----------------------------------------------------------------------------
(* A stand-alone call of binary_loss *)

BinaryLoss ==
    /\ pc = "idle"
    /\ bl_result = <<>>
    /\ bl_args.output # <<>>
    /\ bl_class_weights' = class_weights_of(bl_args.target, bl_args.weight)
    /\ bl_result' = <<binary_loss(bl_args.output, bl_args.target, bl_args.weight)>>
    /\ UNCHANGED <<rng, heap, netvars, args, locals, bl_args>>

-----------------------------------------------------------------------------
(* Initial states *)

\* Line 8 and the construction of the network: torch.manual_seed(42) at
\* import, then ClassifierBinary(inputSize).
InitNet(inputSize) ==
    LET r == ClassifierBinary(inputSize, Seeded(ImportSeed), 0)
    IN  /\ net = r.net
        /\ rng = r.rng
        /\ heap = TensorsPerNet
        /\ net_init = InitRecord("construct", Seeded(ImportSeed))
        /\ fresh = NoNet
        /\ fresh_init = InitRecord("none", Seeded(0))
        /\ optimizer = NewOptimizer

InitLocals(at) ==
    /\ pc = at
    /\ epoch = -1
    /\ order = <<>>
    /\ batch_i = 0
    /\ epoch_train_loss = Zero
    /\ epoch_val_loss = Zero
    /\ epoch_train_accuracy = Zero
    /\ epoch_val_accuracy = Zero
    /\ train_losses = <<>>
    /\ val_losses = <<>>
    /\ train_accuracies = <<>>
    /\ val_accuracies = <<>>
    /\ stdout = <<>>
    /\ result = NoResult

NoFitArgs ==
    /\ train_data = <<>>
    /\ tr_out = <<>>
    /\ val_data = <<>>
    /\ val_out = <<>>
    /\ num_epochs = 0
    /\ batch_size = 1
    /\ print_every = 1
    /\ plot = FALSE
    /\ early_stopping = 0
    /\ loss_weight = <<1, 1>>

NoLossCall ==
    /\ bl_args = [output |-> <<>>, target |-> <<>>, weight |-> <<1, 1>>]
    /\ bl_class_weights = <<>>
    /\ bl_result = <<>>

\* Datasets of a call of fit: the feature rows (a row is named by a number,
\* equal numbers are equal rows) and the labels.  The last of each has fewer
\* labels than rows.  On SteadyTrainSet the two rows are equal and their
\* labels differ, so every output scores the same train loss and accuracy.
SteadyTrainSet == [data |-> <<1, 1>>, out |-> <<0, 1>>]
TrainSets == {SteadyTrainSet,
              [data |-> <<1, 1>>, out |-> <<1, 1>>],
              [data |-> <<1, 1, 1>>, out |-> <<1, 1>>]}
ValSets == {[data |-> <<1, 2, 3>>, out |-> <<0, 1, 1>>],
            [data |-> <<1, 1, 2, 2>>, out |-> <<1, 1, 0, 0>>],
            [data |-> <<1, 2, 3>>, out |-> <<0, 1>>]}
BatchSizes == {2, 3}

\* Lines 62-70: fit is entered; the four histories are empty.  The runs of
\* more than MaxVariedEpochs epochs are explored on SteadyTrainSet.
Init ==
    /\ InitNet(2)
    /\ \E v \in ValSets : val_data = v.data /\ val_out = v.out
    /\ num_epochs \in 0..MaxEpochs
    /\ \E t \in TrainSets :
         /\ train_data = t.data
         /\ tr_out = t.out
         /\ num_epochs > MaxVariedEpochs => t = SteadyTrainSet
    /\ batch_size \in BatchSizes
    /\ print_every = 2
    /\ plot \in BOOLEAN
    /\ early_stopping \in 0..MaxES
    /\ loss_weight = <<1, 1>>
    /\ InitLocals("check_train")
    /\ NoLossCall

Next ==
    \/ CheckTrainShapes
    \/ CheckValShapes
    \/ MakeLoaders
    \/ MakeLoadersRaises
    \/ SetTrainMode
    \/ EpochStart
    \/ EpochsExhausted
    \/ TrainBatch
    \/ ValBatch
    \/ RescoreBatch
    \/ ForwardRaises
    \/ Aggregate
    \/ Report
    \/ EarlyStop
    \/ NoEarlyStop
    \/ Plot
    \/ Return
    \/ ReturnRaises

Spec == Init /\ [][Next]_vars

\* The network outside fit.
InitLifecycle ==
    /\ \E inputSize \in InputSizes : InitNet(inputSize)
    /\ NoFitArgs
    /\ InitLocals("idle")
    /\ NoLossCall

NextLifecycle ==
    \/ ManualSeed
    \/ Construct
    \/ Reset
    \/ TrainStep

SpecLifecycle == InitLifecycle /\ [][NextLifecycle]_vars

\* binary_loss on its own, over every input within the bounds.
InitLoss ==
    /\ InitNet(2)
    /\ NoFitArgs
    /\ InitLocals("idle")
    /\ \E n \in 1..MaxBatchLen :
         \E o \in [1..n -> Probs], t \in [1..n -> {0, 1}], w \in (0..MaxWeight) \X (0..MaxWeight) :
            bl_args = [output |-> o, target |-> t, weight |-> w]
    /\ bl_class_weights = <<>>
    /\ bl_result = <<>>

NextLoss == BinaryLoss

SpecLoss == InitLoss /\ [][NextLoss]_vars

\* fit on train sets of several batches.  With 4 samples a batch size of 2
\* gives two full batches and a batch size of 3 a last batch of one sample;
\* with 5 samples a batch size of 3 gives a last batch of two.
ShuffledTrainSets == {[data |-> <<1, 1, 1, 1>>, out |-> <<0, 1, 1, 0>>],
                      [data |-> <<1, 1, 1, 1, 1>>, out |-> <<1, 1, 1, 1, 1>>]}
ShuffledValSets == {[data |-> <<1, 1, 1, 1>>, out |-> <<1, 0, 0, 1>>],
                    [data |-> <<1, 1, 1, 1, 1>>, out |-> <<1, 1, 0, 0, 1>>]}

InitBatches ==
    /\ InitNet(2)
    /\ \E t \in ShuffledTrainSets : train_data = t.data /\ tr_out = t.out
    /\ \E v \in ShuffledValSets : val_data = v.data /\ val_out = v.out
    /\ num_epochs \in 0..MaxShuffledEpochs
    /\ batch_size \in BatchSizes
    /\ print_every = 1
    /\ plot = FALSE
    /\ early_stopping = 0
    /\ loss_weight = <<1, 1>>
    /\ InitLocals("check_train")
    /\ NoLossCall

NextBatches ==
    \/ CheckTrainShapes
    \/ CheckValShapes
    \/ MakeLoaders
    \/ SetTrainMode
    \/ EpochStart
    \/ EpochsExhausted
    \/ TrainBatch
    \/ ValBatch
    \/ RescoreBatch
    \/ ForwardRaises
    \/ Aggregate
    \/ Report
    \/ NoEarlyStop
    \/ Plot
    \/ Return
    \/ ReturnRaises

SpecBatches == InitBatches /\ [][NextBatches]_vars

-----------------------------------------------------------------------------
(* Properties *)

AllEqual(s) == \A i, j \in DOMAIN s : s[i] = s[j]
StrictlyDecreasing(s) == \A i \in DOMAIN s : i > 1 => RLess(s[i], s[i - 1])
AllPositive(s) == \A i \in DOMAIN s : s[i][1] > 0
LoopLeft == pc \in {"plot", "return", "done"}
StopPrinted == \E i \in DOMAIN stdout : stdout[i].text = "Early stopping at epoch"

\* C1: with early_stopping >= 1 and num_epochs > early_stopping + 2, if every
\* epoch's validation loss is the same constant, fit halts at epoch
\* early_stopping + 2: once the loop is left the history holds exactly
\* early_stopping + 2 entries.
C1_ConstantLossesHalt ==
    (/\ LoopLeft
     /\ early_stopping >= 1
     /\ num_epochs > early_stopping + 2
     /\ AllEqual(val_losses))
    => Len(val_losses) = early_stopping + 2

\* C2: if the validation losses of the epochs form a strictly decreasing
\* sequence of positive values, the early-stopping rule never fires, and once
\* the loop is left exactly num_epochs epochs have been completed.
C2_DecreasingLossesRunAll ==
    (StrictlyDecreasing(val_losses) /\ AllPositive(val_losses))
    => /\ ~StopPrinted
       /\ LoopLeft => Len(val_losses) = num_epochs

C2_Witness ==
    /\ pc = "done"
    /\ early_stopping = 2
    /\ num_epochs = 4
    /\ Len(val_losses) = 4
    /\ StrictlyDecreasing(val_losses)

\* The number of epochs whose metrics have been aggregated and recorded.
CompletedEpochs ==
    IF pc \in {"train", "val", "rescore", "aggregate"} \/ result.exception = "ValueError"
    THEN epoch
    ELSE epoch + 1

IsPrefix(s, t) == Len(s) <= Len(t) /\ \A i \in DOMAIN s : s[i] = t[i]

\* C3: the four histories always have the same length, which is the number of
\* completed epochs; entries once appended are never changed or removed; and
\* the tuple fit returns is the last entry of each history, the metrics of the
\* last completed epoch.
C3_HistoryContract ==
    /\ [](/\ Len(train_losses) = CompletedEpochs
          /\ Len(val_losses) = CompletedEpochs
          /\ Len(train_accuracies) = CompletedEpochs
          /\ Len(val_accuracies) = CompletedEpochs
          /\ result.status = "returned" =>
                /\ result.value = <<train_losses[Len(train_losses)], val_losses[Len(val_losses)],
                                    train_accuracies[Len(train_accuracies)],
                                    val_accuracies[Len(val_accuracies)]>>
                /\ result.value = <<epoch_train_loss, epoch_val_loss,
                                    epoch_train_accuracy, epoch_val_accuracy>>)
    /\ [][/\ IsPrefix(train_losses, train_losses')
          /\ IsPrefix(val_losses, val_losses')
          /\ IsPrefix(train_accuracies, train_accuracies')
          /\ IsPrefix(val_accuracies, val_accuracies')]_vars

C3_Witness ==
    /\ result.status = "returned"
    /\ StopPrinted
    /\ Len(train_losses) = 4
    /\ num_epochs = 5
    /\ result.value[1] # result.value[2]
    /\ result.value[2] # val_losses[3]

\* C4: seeding the generator with s and constructing a network gives the same
\* affine weights and biases as seeding it with the same s and calling reset()
\* on an existing network of the same inputSize.
C4_SeededResetEqualsConstruction ==
    (/\ fresh_init.op = "construct"
     /\ fresh_init.at = 0
     /\ net_init.op = "reset"
     /\ net_init.at = 0
     /\ net_init.seed = fresh_init.seed
     /\ net.inputSize = fresh.inputSize)
    => AffineValues(net) = AffineValues(fresh)

IsInitialTensor(t, fills) == t.updates = 0 /\ t.init.dist \in fills
IsUntrained(n) ==
    /\ \A i \in DOMAIN n.linear :
         /\ IsInitialTensor(n.linear[i].weight, {"kaiming_uniform(a=0)"})
         /\ IsInitialTensor(n.linear[i].bias, {"uniform(-0.5,0.5)"})
    /\ \A j \in DOMAIN n.bn :
         /\ IsInitialTensor(n.bn[j].weight, {"ones"})
         /\ IsInitialTensor(n.bn[j].bias, {"zeros"})
         /\ IsInitialTensor(n.bn[j].running_mean, {"zeros"})
         /\ IsInitialTensor(n.bn[j].running_var, {"ones"})
         /\ IsInitialTensor(n.bn[j].num_batches_tracked, {"zeros"})

\* C5: after any sequence of training steps followed by reset(), every
\* component of the parameter state (the 4 affine layers, the 3 normalization
\* stages with their running mean/variance) holds an initial value, and the
\* storages are those allocated at construction.
C5_ResetRestoresUntrained ==
    net_init.op = "reset"
    => /\ IsUntrained(net)
       /\ Storages(net) = Storages(Sequential(net.inputSize, Seeded(0), 0).net)

\* C6: the weight binary_loss applies to a sample is
\* target*weight_positive + (1 - target)*weight_negative (weight_positive for
\* a target of 1, weight_negative for a target of 0); with weight = (1, 1)
\* every sample has weight 1 and the loss is the unweighted mean of the
\* cross-entropy terms.
C6_PerSampleWeight ==
    bl_result # <<>> =>
        LET t == bl_args.target
            o == bl_args.output
            weight_negative == bl_args.weight[1]
            weight_positive == bl_args.weight[2]
        IN  /\ DOMAIN bl_class_weights = DOMAIN t
            /\ \A i \in DOMAIN t :
                 /\ bl_class_weights[i] = t[i] * weight_positive + (1 - t[i]) * weight_negative
                 /\ t[i] = 1 => bl_class_weights[i] = weight_positive
                 /\ t[i] = 0 => bl_class_weights[i] = weight_negative
            /\ bl_args.weight = <<1, 1>> =>
                 /\ \A i \in DOMAIN t : bl_class_weights[i] = 1
                 /\ bl_result[1] = Rat(SumSeq([i \in DOMAIN o |-> BceTerm(o[i], t[i])]), Len(o))

C6_Witness ==
    /\ bl_result # <<>>
    /\ bl_args.weight = <<1, 2>>
    /\ bl_args.target = <<0, 1>>
    /\ bl_class_weights = <<1, 2>>

\* C7: during fit the parameters (weights and biases) change only in the
\* optimizer step of the training phase; validation scoring, train rescoring,
\* aggregation, reporting and the early-stopping check leave them unchanged.
C7_ParametersOnlyByOptimizer ==
    [][/\ Parameters(net') # Parameters(net) =>
              (pc = "train" /\ optimizer'.steps = optimizer.steps + 1)
       /\ pc \in {"val", "rescore", "aggregate", "report", "early_stop"} =>
              Parameters(net') = Parameters(net)]_vars

C7_Witness ==
    /\ pc = "early_stop"
    /\ epoch = 1
    /\ optimizer.steps = 2
    /\ \A i \in DOMAIN net.linear : net.linear[i].weight.updates = 2

\* C8: when the number of train (validation) features differs from the number
\* of train (validation) labels, the check only prints the error message: it
\* raises nothing, leaves the histories and the network unchanged, and
\* execution continues with the next statement.
C8_MismatchOnlyLogged ==
    [][/\ (pc = "check_train" /\ Len(train_data) # Len(tr_out)) =>
              /\ stdout' = Append(stdout, MismatchMessage)
              /\ pc' = "check_val"
              /\ result' = NoResult
              /\ UNCHANGED <<history, net>>
       /\ (pc = "check_val" /\ Len(val_data) # Len(val_out)) =>
              /\ stdout' = Append(stdout, MismatchMessage)
              /\ pc' = "loaders"
              /\ result' = NoResult
              /\ UNCHANGED <<history, net>>]_vars

C8_Witness ==
    /\ pc = "loaders"
    /\ Len(train_data) # Len(tr_out)
    /\ Len(val_data) # Len(val_out)
    /\ stdout = <<MismatchMessage, MismatchMessage>>
    /\ result = NoResult

\* C9: when the check runs at 0-based epoch index e with early_stopping = k > 0
\* and e > k, the older value is the validation loss recorded at epoch e - k,
\* and training halts if and only if that loss is strictly smaller than 0.999
\* times the validation loss of epoch e.
C9_WindowIsKEpochsBack ==
    [][(pc = "early_stop" /\ early_stopping > 0 /\ epoch > early_stopping) =>
          ((pc' = "plot") <=>
             RLess(val_losses[(epoch - early_stopping) + 1],
                   RMul(val_losses[epoch + 1], Factor)))]_vars

\* C10: the network is in evaluation mode during the validation-scoring and
\* train-rescoring phases, and the running mean/variance of the normalization
\* stages are not changed by the passes of those phases.
C10_StatsFrozenWhenScoring ==
    [][(pc \in {"val", "rescore"}) =>
          (~net.training /\ RunningStats(net') = RunningStats(net))]_vars

TrainBatches == NumBatches(Len(train_data), batch_size)

C12_EarlyStoppingGate ==
    /\ [](/\ StopPrinted =>
                /\ early_stopping > 0
                /\ epoch > early_stopping
                /\ Len(val_losses) >= early_stopping + 2
          /\ (early_stopping = 0 /\ LoopLeft) => Len(val_losses) = num_epochs)
    /\ [][(pc = "early_stop") =>
            /\ (pc' = "plot") => (early_stopping > 0 /\ epoch > early_stopping)
            /\ ~(early_stopping > 0 /\ epoch > early_stopping) =>
                  (pc' = "epoch" /\ stdout' = stdout)]_vars

C12_Witness ==
    /\ pc = "done"
    /\ StopPrinted
    /\ early_stopping = 2
    /\ epoch = 3
    /\ Len(val_losses) = early_stopping + 2
    /\ num_epochs = 5

\* C13: the train-rescoring phase visits the training samples in their
\* original dataset order (batch i holds samples i*batch_size ..
\* (i+1)*batch_size - 1), the same in every epoch, and the validation phase
\* visits the validation samples in dataset order.
C13_RescoringUnshuffled ==
    /\ pc = "rescore" =>
          /\ order = Identity(Len(train_data))
          /\ \A i \in DOMAIN CurrentBatch : CurrentBatch[i] = batch_i * batch_size + i
    /\ pc = "val" => order = Identity(Len(val_data))

ValBatches == NumBatches(Len(val_data), batch_size)

\* The value a batch can score on a metric, over the outputs the network can
\* give on its rows.
BatchValues(metric, data, out, batch) ==
    {IF metric = "loss"
     THEN binary_loss(y_hat, Labels(out, batch), loss_weight)
     ELSE compute_accuracy(y_hat, Labels(out, batch)) :
        y_hat \in Outputs(Rows(data, batch))}

\* The sums of the values of the first k batches of a loader visiting ord.
RECURSIVE PartialSums(_, _, _, _, _)
PartialSums(metric, data, out, ord, k) ==
    IF k = 0
    THEN {Zero}
    ELSE {RAdd(a, b) : a \in PartialSums(metric, data, out, ord, k - 1),
                       b \in BatchValues(metric, data, out, BatchOf(ord, batch_size, k - 1))}

\* The validation means an epoch can record: the sum over all batches of one
\* pass, started from zero, divided by the number of batches.
ValMeans(metric) ==
    {RDivInt(x, ValBatches) :
        x \in PartialSums(metric, val_data, val_out, Identity(Len(val_data)), ValBatches)}

\* C14: the four accumulators are zero when an epoch starts; while a pass
\* runs, its accumulators hold the sum of the values of the batches taken so
\* far in this epoch (for the train pass, the batches of the order it visits);
\* each recorded metric, of every epoch, is such a sum over all
\* ceil(samples / batch_size) batches of the loader divided by that number of
\* batches, whatever the epochs before it accumulated.
C14_EpochMeans ==
    /\ [](/\ pc = "train" =>
                accums = <<Zero, Zero, Zero, Zero>>
          /\ pc = "val" =>
                /\ epoch_val_loss \in PartialSums("loss", val_data, val_out, order, batch_i)
                /\ epoch_val_accuracy \in PartialSums("accuracy", val_data, val_out, order, batch_i)
                /\ epoch_train_loss = Zero /\ epoch_train_accuracy = Zero
          /\ pc = "rescore" =>
                /\ epoch_train_loss \in PartialSums("loss", train_data, tr_out, order, batch_i)
                /\ epoch_train_accuracy \in PartialSums("accuracy", train_data, tr_out, order, batch_i)
          /\ pc = "report" =>
                /\ \A i \in DOMAIN val_losses :
                      /\ val_losses[i] \in ValMeans("loss")
                      /\ val_accuracies[i] \in ValMeans("accuracy"))
    /\ [][/\ (pc = "rescore" /\ pc' = "aggregate") =>
                /\ epoch_train_loss' \in
                      PartialSums("loss", train_data, tr_out, order, TrainBatches)
                /\ epoch_train_accuracy' \in
                      PartialSums("accuracy", train_data, tr_out, order, TrainBatches)
                /\ epoch_val_loss \in
                      PartialSums("loss", val_data, val_out, Identity(Len(val_data)), ValBatches)
          /\ (pc = "aggregate") =>
                /\ train_losses' = Append(train_losses, RDivInt(epoch_train_loss, TrainBatches))
                /\ val_losses' = Append(val_losses, RDivInt(epoch_val_loss, ValBatches))
                /\ train_accuracies' =
                      Append(train_accuracies, RDivInt(epoch_train_accuracy, TrainBatches))
                /\ val_accuracies' =
                      Append(val_accuracies, RDivInt(epoch_val_accuracy, ValBatches))]_vars

C14_Witness ==
    /\ pc = "report"
    /\ epoch = 1
    /\ Len(val_data) = 5
    /\ Len(train_data) = 5
    /\ batch_size = 3
    /\ BatchOf(Identity(Len(val_data)), batch_size, ValBatches - 1) = <<4, 5>>
    /\ val_losses[1] # val_losses[2]
    /\ train_losses[1] # train_losses[2]

\* C15: for num_epochs >= 1, whatever early_stopping and the losses are, fit
\* ends by returning a 4-tuple after at least 1 and at most num_epochs
\* completed epochs; for num_epochs = 0 no epoch runs, the histories stay
\* empty, and fit ends in the IndexError of reading the last history entry.
\* (Stated for calls whose feature and label tensors agree in length.)
C15_TerminatesWithResult ==
    (/\ pc \in {"done", "error"}
     /\ Len(train_data) = Len(tr_out)
     /\ Len(val_data) = Len(val_out))
    => IF num_epochs >= 1
       THEN /\ result.status = "returned"
            /\ Len(val_losses) >= 1
            /\ Len(val_losses) <= num_epochs
       ELSE /\ result = Raised("IndexError")
            /\ history = <<(<<>>), (<<>>), (<<>>), (<<>>)>>

StrictlyIncreasing(s) == \A i \in DOMAIN s : i > 1 => RLess(s[i - 1], s[i])

\* C16: with early_stopping = 1 the older loss the check reads is the
\* validation loss of the current epoch itself, so for positive validation
\* losses, strictly increasing ones included, the rule never fires and fit
\* runs all num_epochs epochs.
C16_WindowOfOneInert ==
    /\ []((early_stopping = 1 /\ AllPositive(val_losses)) =>
            /\ ~StopPrinted
            /\ LoopLeft => Len(val_losses) = num_epochs)
    /\ [][(pc = "early_stop" /\ early_stopping = 1 /\ epoch > early_stopping) =>
            /\ NegIndex(val_losses, -early_stopping) = val_losses[epoch + 1]
            /\ pc' = "epoch"]_vars

C16_Witness ==
    /\ pc = "done"
    /\ early_stopping = 1
    /\ num_epochs = 4
    /\ Len(val_losses) = 4
    /\ StrictlyIncreasing(val_losses)
    /\ AllPositive(val_losses)

=============================================================================
